---- MODULE Spec2Model ----
(***************************************************************************)
(* A model of the tennis video analysis core: VideoProcessor               *)
(* (initialize, processFrame, isBallLike, isCourtLike, processVideo,       *)
(* generateHeatmap, calculateStats).                                       *)
(*                                                                         *)
(* Numbers.  Confidence scores are kept in hundredths (0.5 is 50).         *)
(* Bounding boxes carry integer pixel coordinates <<x1, y1, x2, y2>>.      *)
(***************************************************************************)
EXTENDS Integers, Sequences, FiniteSets, TLC

VARIABLES
    detections,     \* processFrame: what the detector returned for the frame
    frameResult,    \* processFrame: the TennisAnalysis returned, or Null
    framePc,        \* processFrame: "idle", "call" before the call, "returned" after
    hmInput,        \* generateHeatmap: [analyses, width, height, type]
    heatmap,        \* generateHeatmap: the grid returned (rows of cells), or Null
    hmPc,           \* generateHeatmap: "idle", "call", "returned"
    stAnalyses,     \* calculateStats: the analyses argument
    stats,          \* calculateStats: the record returned, or Null
    stPc,           \* calculateStats: "idle", "call", "returned"
    initialized,    \* VideoProcessor.initialized
    objectDetector, \* VideoProcessor.objectDetector: Null or the pipeline loaded
    pipelineCalls,  \* how many times pipeline(...) has been called
    initializeCalls, \* how many times the caller has called initialize()
    video,          \* the video element: duration, videoWidth, videoHeight, currentTime
    canvas,         \* the canvas element: hasContext, width, height
    call,           \* the outstanding call: "none", "initialize", "processVideo"
    pc,             \* where the outstanding call is suspended, or how it ended
    duration,       \* processVideo: const duration
    currentTime,    \* processVideo: let currentTime
    frameNumber,    \* processVideo: let frameNumber
    results,        \* processVideo: const results
    seekLog,        \* the times assigned to video.currentTime, in order
    frameLog,       \* the analyses onFrame was invoked with, in order
    progressLog,    \* the operands of each onProgress(currentTime / duration * 100)
    errorLog,       \* the frame numbers of console.error(`Erro no frame ...`)
    initErrors,     \* how many times console.error('Erro ao inicializar detector:') ran
    events,         \* what processVideo did, in order: "seek", "seeked", "draw", ...
    responseLog,    \* what the detector answered to each call, in order
    resultsId,      \* processVideo: the array object that results names (0: none yet)
    finished,       \* the earlier processVideo calls: how each ended and its array
    installs,       \* how many times this.objectDetector = <loaded pipeline> ran
    loads,          \* the pipeline(...) loads awaited by overlapping initialize() calls
    youtubeUrl,     \* TennisAnalyzer: the youtubeUrl state (the text of the input)
    isAnalyzing,    \* TennisAnalyzer: the isAnalyzing state
    videoLoaded,    \* TennisAnalyzer: the videoLoaded state
    videoSrc,       \* TennisAnalyzer: the src of the video element ("" : none set)
    downloading,    \* TennisAnalyzer: handleSubmit calls waiting in downloadVideo
    toasts,         \* TennisAnalyzer: the titles toast() was called with, in order
    submits,        \* TennisAnalyzer: how many times the form was submitted
    analysisRuns,   \* TennisAnalyzer: how many times analyzeVideo called the processor
    submitsEnded    \* TennisAnalyzer: how many handleSubmit calls ran to their end

frameVars == <<detections, frameResult, framePc>>

heatVars == <<hmInput, heatmap, hmPc>>

statsVars == <<stAnalyses, stats, stPc>>

processorVars == <<initialized, objectDetector, pipelineCalls, initializeCalls, installs>>

elementVars == <<video, canvas>>

runVars == <<call, pc, duration, currentTime, frameNumber, results>>

logVars == <<seekLog, frameLog, progressLog, errorLog, initErrors, events, responseLog>>

heapVars == <<resultsId, finished>>

videoVars == <<processorVars, elementVars, runVars, logVars, heapVars>>

pureVars == <<frameVars, heatVars, statsVars>>

raceVars == <<loads>>

uiVars == <<youtubeUrl, isAnalyzing, videoLoaded, videoSrc, downloading, toasts,
            submits, analysisRuns, submitsEnded>>

vars == <<frameVars, heatVars, statsVars, videoVars, raceVars, uiVars>>

(***************************************************************************)
(* Bounds of the model.                                                    *)
(***************************************************************************)
MaxDetections == 3

\* generateHeatmap: longest analysis sequence and largest grid
MaxHeatAnalyses == 2

MaxWidth == 3

MaxHeight == 2

\* calculateStats: longest analysis sequence over the full catalogue, and
\* over the two far-apart ball positions only
MaxAnalyses == 3

MaxLongAnalyses == 15

\* processVideo: the longest video, in half seconds, and the number of calls
\* of initialize() made before processVideo
MaxHalfSeconds == 2

MaxInitializeCalls == 2

\* repeated processVideo calls: the longest video, in half seconds, and the
\* number of calls after the first
MaxRepeatHalfSeconds == 1

MaxRepeatCalls == 1

\* calculateStats: the longest sequence of analyses with and without a ball
MaxMixedAnalyses == 11

\* TennisAnalyzer: how many times the form is submitted
MaxSubmits == 3

\* The initialize() calls made without waiting for one another
MaxOverlappingCalls == 2

(***************************************************************************)
(* Values.                                                                 *)
(***************************************************************************)
\* JavaScript null (ball, court, objectDetector).
Null == [null |-> TRUE]

Abs(x) == IF x < 0 THEN -x ELSE x

Min(a, b) == IF a < b THEN a ELSE b

\* All sequences over S of length at most n.
SeqsUpTo(S, n) == UNION {[1..k -> S] : k \in 0..n}

\* The first n elements of s (Array.prototype.slice(0, n)).
Slice0(s, n) == SubSeq(s, 1, Min(n, Len(s)))

(***************************************************************************)
(* Detector output.  A raw detection is what the object-detection pipeline *)
(* yields: a box, a score and a label.                                     *)
(***************************************************************************)
\* Labels: "person", "sports ball" and "car" (any other COCO label).
\* Scores: 0.40, 0.50 (the threshold itself) and 0.90.
\* 10x10 (area 100, round) and 400x200 (area 80000, width = 2 * height)
ShapedBoxes == {<<0, 0, 10, 10>>, <<0, 0, 400, 200>>}

\* 40x10 (area 400, not round), 300x100 (area 30000), 300x200 (area 60000,
\* width = 1.5 * height exactly)
PlainBoxes == {<<0, 0, 40, 10>>, <<0, 0, 300, 100>>, <<0, 0, 300, 200>>}

RawDetections ==
    [bbox : ShapedBoxes, score : {50, 90}, label : {"person", "sports ball"}]
    \cup [bbox : ShapedBoxes \cup PlainBoxes, score : {50, 90}, label : {"car"}]
    \cup {[bbox |-> <<0, 0, 10, 10>>, score |-> 40, label |-> "person"],
          [bbox |-> <<0, 0, 10, 10>>, score |-> 40, label |-> "sports ball"],
          [bbox |-> <<0, 0, 400, 200>>, score |-> 40, label |-> "car"]}

(***************************************************************************)
(* VideoProcessor.isBallLike / isCourtLike                                 *)
(***************************************************************************)
\* area < 2000 && Math.abs(width - height) < Math.min(width, height) * 0.5
isBallLike(result) ==
    LET width  == result.bbox[3] - result.bbox[1]
        height == result.bbox[4] - result.bbox[2]
        area   == width * height
    IN  area < 2000 /\ 2 * Abs(width - height) < Min(width, height)

\* area > 50000 && width > height * 1.5
isCourtLikeSmall(result) ==
    LET width  == result.bbox[3] - result.bbox[1]
        height == result.bbox[4] - result.bbox[2]
        area   == width * height
    IN  area > 5000 /\ 2 * width > 3 * height

isCourtLike(result) ==
    LET width  == result.bbox[3] - result.bbox[1]
        height == result.bbox[4] - result.bbox[2]
        area   == width * height
    IN  area > 50000 /\ 2 * width > 3 * height

(***************************************************************************)
(* VideoProcessor.processFrame: the body of the for loop, one detection.   *)
(* acc is [players, ball, court] as the loop holds them.                   *)
(***************************************************************************)
\* if (score < 0.5) continue;
LowConfidenceLe(detection) == detection.score <= 50

LowConfidence(detection) == detection.score < 50

\* !ball || score > ball.score   (and the same test for court)
ReplacesGe(candidate, detection) ==
    candidate = Null \/ detection.score >= candidate.score

Replaces(candidate, detection) ==
    candidate = Null \/ detection.score > candidate.score

ClassifyStep(acc, detection) ==
    IF LowConfidence(detection) THEN acc
    ELSE IF detection.label = "person"
         THEN [acc EXCEPT !.players = Append(@, detection)]
    ELSE IF detection.label = "sports ball" \/ isBallLike(detection)
         THEN IF Replaces(acc.ball, detection)
              THEN [acc EXCEPT !.ball = detection]
              ELSE acc
    ELSE IF isCourtLike(detection)
         THEN IF Replaces(acc.court, detection)
              THEN [acc EXCEPT !.court = detection]
              ELSE acc
    ELSE acc

RECURSIVE ClassifyLoop(_, _)
ClassifyLoop(acc, dets) ==
    IF dets = <<>> THEN acc
    ELSE ClassifyLoop(ClassifyStep(acc, Head(dets)), Tail(dets))

\* players.slice(0, 2)
CapPlayersThree(players) == Slice0(players, 3)

CapPlayers(players) == Slice0(players, 2)

\* The analysis processFrame returns when the detector returned dets.
processFrame(dets, frameNo, timestamp) ==
    LET acc == ClassifyLoop([players |-> <<>>, ball |-> Null, court |-> Null], dets)
    IN  [frame     |-> frameNo,
         timestamp |-> timestamp,
         players   |-> CapPlayers(acc.players),
         ball      |-> acc.ball,
         court     |-> acc.court]

(***************************************************************************)
(* Specification of processFrame on its own: the detector output is drawn  *)
(* from the bounded lists of raw detections, then the frame is classified. *)
(***************************************************************************)
\* The parts of the state an operation that is not running leaves alone.
IdleFrame == detections = <<>> /\ frameResult = Null /\ framePc = "idle"

IdleHeat == hmInput = Null /\ heatmap = Null /\ hmPc = "idle"

IdleStats == stAnalyses = <<>> /\ stats = Null /\ stPc = "idle"

IdleVideo ==
    /\ initialized = FALSE /\ objectDetector = Null
    /\ pipelineCalls = 0 /\ initializeCalls = 0
    /\ video = Null /\ canvas = Null
    /\ call = "none" /\ pc = "idle"
    /\ duration = Null /\ currentTime = Null /\ frameNumber = 0 /\ results = <<>>
    /\ seekLog = <<>> /\ frameLog = <<>> /\ progressLog = <<>> /\ errorLog = <<>>
    /\ initErrors = 0 /\ events = <<>> /\ responseLog = <<>>
    /\ resultsId = 0 /\ finished = <<>>
    /\ installs = 0 /\ loads = {}

IdleUI ==
    /\ youtubeUrl = <<>>
    /\ isAnalyzing = FALSE /\ videoLoaded = FALSE
    /\ videoSrc = "" /\ downloading = 0
    /\ toasts = <<>> /\ submits = 0 /\ analysisRuns = 0 /\ submitsEnded = 0

InitFrame ==
    /\ detections \in SeqsUpTo(RawDetections, MaxDetections)
    /\ frameResult = Null
    /\ framePc = "call"
    /\ IdleHeat
    /\ IdleStats
    /\ IdleVideo
    /\ IdleUI

ProcessFrame ==
    /\ framePc = "call"
    /\ frameResult' = processFrame(detections, 0, 0)
    /\ framePc' = "returned"
    /\ UNCHANGED <<detections, heatVars, statsVars, videoVars, raceVars, uiVars>>

NextFrame == ProcessFrame

SpecFrame == InitFrame /\ [][NextFrame]_vars

(***************************************************************************)
(* Claims about processFrame.                                              *)
(***************************************************************************)
Returned == framePc = "returned"

\* The slots of the returned analysis, as a set of detections.
Kept(a) ==
    {a.players[i] : i \in 1..Len(a.players)}
    \cup (IF a.ball = Null THEN {} ELSE {a.ball})
    \cup (IF a.court = Null THEN {} ELSE {a.court})

IsPerson(d) == d.label = "person"

Confident(d) == d.score >= 50

\* The ball rule of the classifier, stated on the box.
BallShape(d) ==
    LET w == d.bbox[3] - d.bbox[1]
        h == d.bbox[4] - d.bbox[2]
    IN  w * h < 2000 /\ 2 * Abs(w - h) < Min(w, h)

\* The court rule of the classifier, stated on the box.
CourtShape(d) ==
    LET w == d.bbox[3] - d.bbox[1]
        h == d.bbox[4] - d.bbox[2]
    IN  w * h > 50000 /\ 2 * w > 3 * h

BallEligible(d) ==
    Confident(d) /\ ~IsPerson(d) /\ (d.label = "sports ball" \/ BallShape(d))

CourtEligible(d) ==
    /\ Confident(d) /\ ~IsPerson(d)
    /\ ~(d.label = "sports ball" \/ BallShape(d))
    /\ CourtShape(d)

ConfidentPerson(d) == Confident(d) /\ IsPerson(d)

\* The first element of s with the maximum score; s is not empty.
FirstBest(s) ==
    LET best == CHOOSE i \in 1..Len(s) :
                    /\ \A j \in 1..Len(s) : s[j].score <= s[i].score
                    /\ \A j \in 1..(i - 1) : s[j].score < s[i].score
    IN  s[best]

\* C1: no detection with score < 0.5 is among the players, ball or court of
\* the returned analysis, and a detection with score exactly 0.5 is not
\* dropped by the confidence filter: a 0.5 person preceded by fewer than two
\* confident persons is a player, and a frame whose only ball (court)
\* candidates score 0.5 still has a ball (court).
C1_LowConfidenceDropped ==
    Returned =>
        /\ \A d \in Kept(frameResult) : d.score >= 50
        /\ \A i \in 1..Len(detections) :
              ( /\ detections[i].score = 50
                /\ IsPerson(detections[i])
                /\ Cardinality({j \in 1..(i - 1) : ConfidentPerson(detections[j])}) < 2 )
              => \E k \in 1..Len(frameResult.players) :
                     frameResult.players[k] = detections[i]
        /\ (\E i \in 1..Len(detections) :
               detections[i].score = 50 /\ BallEligible(detections[i]))
           => frameResult.ball # Null
        /\ (\E i \in 1..Len(detections) :
               detections[i].score = 50 /\ CourtEligible(detections[i]))
           => frameResult.court # Null

\* C1 witness: a frame with a 0.4 detection and a 0.5 detection was
\* classified and the 0.5 one was kept.
C1_Witness ==
    /\ Returned
    /\ \E i \in 1..Len(detections) : detections[i].score = 40
    /\ \E d \in Kept(frameResult) : d.score = 50

\* C2: the players list has at most two entries and is exactly the first two
\* (or fewer) detections labelled person with score >= 0.5, in detector order.
C2_PlayersFirstTwo ==
    Returned =>
        /\ Len(frameResult.players) <= 2
        /\ frameResult.players = Slice0(SelectSeq(detections, ConfidentPerson), 2)

\* C2 witness: three confident persons, the third scoring higher than one of
\* the first two, and the first two were returned.
C2_Witness ==
    /\ Returned
    /\ Len(detections) = 3
    /\ \A i \in 1..3 : ConfidentPerson(detections[i])
    /\ detections[3].score > detections[2].score
    /\ frameResult.players = <<detections[1], detections[2]>>

\* C3: the returned ball (court) is the eligible detection with the maximum
\* score, the earliest one among equals, and is null only when no detection
\* is eligible.
C3_HighestScoreFirstSeen ==
    Returned =>
        LET balls  == SelectSeq(detections, BallEligible)
            courts == SelectSeq(detections, CourtEligible)
        IN  /\ frameResult.ball = (IF balls = <<>> THEN Null ELSE FirstBest(balls))
            /\ frameResult.court = (IF courts = <<>> THEN Null ELSE FirstBest(courts))

\* C3 witness: two different ball candidates tie at the top score behind a
\* weaker first candidate, and the earlier of the two was returned.
C3_Witness ==
    /\ Returned
    /\ Len(detections) = 3
    /\ \A i \in 1..3 : BallEligible(detections[i])
    /\ detections[1].score < detections[2].score
    /\ detections[2].score = detections[3].score
    /\ detections[2] # detections[3]
    /\ frameResult.ball = detections[2]

\* The class the classification rules give a confident detection.
RuleClass(d) ==
    IF d.label = "person" THEN "player"
    ELSE IF d.label = "sports ball" \/ BallShape(d) THEN "ball"
    ELSE IF CourtShape(d) THEN "court"
    ELSE "dropped"

ConfidentOfClass(c) ==
    {detections[i] : i \in {j \in 1..Len(detections) :
        Confident(detections[j]) /\ RuleClass(detections[j]) = c}}

\* C4: every detection with score >= 0.5 goes to exactly one class by the
\* first matching rule (person, then ball label or ball shape, then court
\* shape, else dropped): each slot of the analysis holds only detections of
\* its class and is empty exactly when the frame has none of that class; a
\* 10x10 box labelled neither person nor ball is a ball candidate and a
\* 300x100 box labelled neither person nor ball is dropped.
C4_FirstMatchingRule ==
    Returned =>
        /\ \A k \in 1..Len(frameResult.players) :
               RuleClass(frameResult.players[k]) = "player"
        /\ frameResult.ball # Null => RuleClass(frameResult.ball) = "ball"
        /\ frameResult.court # Null => RuleClass(frameResult.court) = "court"
        /\ (frameResult.players = <<>>) <=> (ConfidentOfClass("player") = {})
        /\ (frameResult.ball = Null) <=> (ConfidentOfClass("ball") = {})
        /\ (frameResult.court = Null) <=> (ConfidentOfClass("court") = {})
        /\ \A d \in Kept(frameResult) : \E i \in 1..Len(detections) : detections[i] = d
        /\ \A i \in 1..Len(detections) :
              LET d == detections[i]
              IN  /\ (Confident(d) /\ d.label = "car" /\ d.bbox = <<0, 0, 10, 10>>)
                        => (frameResult.ball # Null /\ RuleClass(d) = "ball")
                  /\ (d.label = "car" /\ d.bbox = <<0, 0, 300, 100>>)
                        => (d \notin Kept(frameResult) /\ RuleClass(d) = "dropped")

\* C4 witness: a frame holding a confident person in a ball-shaped box, a
\* confident 300x100 car and a confident 10x10 car was classified; the
\* person is a player, the 10x10 car the ball, and there is no court.
C4_Witness ==
    /\ Returned
    /\ \E i, j, k \in 1..Len(detections) :
          /\ detections[i] = [bbox |-> <<0, 0, 10, 10>>, score |-> 90, label |-> "person"]
          /\ detections[j] = [bbox |-> <<0, 0, 300, 100>>, score |-> 90, label |-> "car"]
          /\ detections[k] = [bbox |-> <<0, 0, 10, 10>>, score |-> 50, label |-> "car"]
          /\ frameResult.players = <<detections[i]>>
          /\ frameResult.ball = detections[k]
          /\ frameResult.court = Null

(***************************************************************************)
(* VideoProcessor.generateHeatmap                                          *)
(***************************************************************************)
\* Math.floor((x1 + x2) / 2), Math.floor((y1 + y2) / 2); \div rounds down.
TruncHalf(n) == IF n < 0 THEN -((-n) \div 2) ELSE n \div 2

CenterTrunc(bbox) == <<TruncHalf(bbox[1] + bbox[3]), TruncHalf(bbox[2] + bbox[4])>>

Center(bbox) == <<(bbox[1] + bbox[3]) \div 2, (bbox[2] + bbox[4]) \div 2>>

\* Array(height).fill(null).map(() => Array(width).fill(0)); row r of the
\* code is element r + 1 here.
ZeroGrid(width, height) == [r \in 1..height |-> [c \in 1..width |-> 0]]

\* if (centerX >= 0 && centerX < width && centerY >= 0 && centerY < height)
\*     heatmap[centerY][centerX] += 1;
MarkSets(grid, bbox, width, height) ==
    LET centerX == Center(bbox)[1]
        centerY == Center(bbox)[2]
    IN  IF centerX >= 0 /\ centerX < width /\ centerY >= 0 /\ centerY < height
        THEN [grid EXCEPT ![centerY + 1][centerX + 1] = 1]
        ELSE grid

Mark(grid, bbox, width, height) ==
    LET centerX == Center(bbox)[1]
        centerY == Center(bbox)[2]
    IN  IF centerX >= 0 /\ centerX < width /\ centerY >= 0 /\ centerY < height
        THEN [grid EXCEPT ![centerY + 1][centerX + 1] = @ + 1]
        ELSE grid

\* for (const player of analysis.players) ...
RECURSIVE MarkPlayers(_, _, _, _)
MarkPlayers(grid, players, width, height) ==
    IF players = <<>> THEN grid
    ELSE MarkPlayers(Mark(grid, Head(players).bbox, width, height),
                     Tail(players), width, height)

\* for (const analysis of analyses) ...
RECURSIVE HeatmapLoop(_, _, _, _, _)
HeatmapLoop(grid, analyses, width, height, type) ==
    IF analyses = <<>> THEN grid
    ELSE LET analysis == Head(analyses)
             next == IF type = "players"
                     THEN MarkPlayers(grid, analysis.players, width, height)
                     ELSE IF type = "ball" /\ analysis.ball # Null
                     THEN Mark(grid, analysis.ball.bbox, width, height)
                     ELSE grid
         IN  HeatmapLoop(next, Tail(analyses), width, height, type)

generateHeatmap(analyses, width, height, type) ==
    HeatmapLoop(ZeroGrid(width, height), analyses, width, height, type)

(***************************************************************************)
(* Specification of generateHeatmap on its own.                            *)
(***************************************************************************)
\* The boxes used have their centers at (0.5, 0.5), (2.5, 1.5), (-0.5, 0.5).
HeatDetection(bbox) == [bbox |-> bbox, score |-> 90, label |-> "person"]

HeatAnalyses ==
    [frame : {0}, timestamp : {0}, court : {Null},
     players : {<<>>,
                <<HeatDetection(<<0, 0, 1, 1>>)>>,
                <<HeatDetection(<<2, 1, 3, 2>>), HeatDetection(<<0, 0, 1, 1>>)>>,
                <<HeatDetection(<<-1, 0, 0, 1>>), HeatDetection(<<2, 1, 3, 2>>)>>},
     ball : {Null,
             [bbox |-> <<2, 1, 3, 2>>, score |-> 90, label |-> "sports ball"],
             [bbox |-> <<-1, 0, 0, 1>>, score |-> 90, label |-> "sports ball"]}]

InitHeat ==
    /\ hmInput \in [analyses : SeqsUpTo(HeatAnalyses, MaxHeatAnalyses),
                    width : 0..MaxWidth, height : 0..MaxHeight,
                    type : {"players", "ball"}]
    /\ heatmap = Null
    /\ hmPc = "call"
    /\ IdleFrame
    /\ IdleStats
    /\ IdleVideo
    /\ IdleUI

GenerateHeatmap ==
    /\ hmPc = "call"
    /\ heatmap' = generateHeatmap(hmInput.analyses, hmInput.width,
                                  hmInput.height, hmInput.type)
    /\ hmPc' = "returned"
    /\ UNCHANGED <<hmInput, frameVars, statsVars, videoVars, raceVars, uiVars>>

NextHeat == GenerateHeatmap

SpecHeat == InitHeat /\ [][NextHeat]_vars

(***************************************************************************)
(* Claims about generateHeatmap.                                           *)
(***************************************************************************)
\* The integer k with k <= n / 2 < k + 1.
FloorOfHalf(n) == CHOOSE k \in -100..100 : 2 * k <= n /\ n < 2 * k + 2

\* The cell <<column, row>> a box falls in, or no cell of any grid.
CellOf(bbox) == <<FloorOfHalf(bbox[1] + bbox[3]), FloorOfHalf(bbox[2] + bbox[4])>>

\* The boxes that contribute to a heatmap of the given type, each named by
\* its place in the input: <<i, j>> is player j of analysis i, <<i, 0>> the
\* ball of analysis i.
Contributions(analyses, type) ==
    IF type = "players"
    THEN {<<i, j>> \in (1..Len(analyses)) \X (1..2) : j <= Len(analyses[i].players)}
    ELSE {<<i, 0>> : i \in {k \in 1..Len(analyses) : analyses[k].ball # Null}}

ContributionBox(analyses, c) ==
    IF c[2] = 0 THEN analyses[c[1]].ball.bbox ELSE analyses[c[1]].players[c[2]].bbox

InGrid(cell, width, height) ==
    cell[1] >= 0 /\ cell[1] < width /\ cell[2] >= 0 /\ cell[2] < height

RECURSIVE SumSeq(_)
SumSeq(s) == IF s = <<>> THEN 0 ELSE Head(s) + SumSeq(Tail(s))

\* The sum of all cells of a grid.
GridSum(grid) == SumSeq([r \in 1..Len(grid) |-> SumSeq(grid[r])])

\* C5: the heatmap has height rows of width non-negative integer cells; the
\* cell at row y, column x counts the contributing detections whose floored
\* center is (x, y); the sum of all cells is the number of contributing
\* detections with a floored center inside the grid; an empty analysis
\* sequence gives the all-zero grid.
C5_HeatmapCounts ==
    hmPc = "returned" =>
        LET in == hmInput
            cs == Contributions(in.analyses, in.type)
        IN  /\ Len(heatmap) = in.height
            /\ \A r \in 1..in.height :
                  /\ Len(heatmap[r]) = in.width
                  /\ \A c \in 1..in.width :
                        /\ heatmap[r][c] \in Nat
                        /\ heatmap[r][c] = Cardinality({k \in cs :
                               CellOf(ContributionBox(in.analyses, k)) = <<c - 1, r - 1>>})
            /\ GridSum(heatmap) = Cardinality({k \in cs :
                   InGrid(CellOf(ContributionBox(in.analyses, k)), in.width, in.height)})
            /\ in.analyses = <<>> =>
                  \A r \in 1..in.height : \A c \in 1..in.width : heatmap[r][c] = 0

\* C5 witness: a players heatmap on a 3 x 2 grid was built from boxes of
\* which one has its center left of the grid and two share a cell.
C5_Witness ==
    /\ hmPc = "returned"
    /\ hmInput.type = "players" /\ hmInput.width = 3 /\ hmInput.height = 2
    /\ \E k \in Contributions(hmInput.analyses, "players") :
           ~InGrid(CellOf(ContributionBox(hmInput.analyses, k)), 3, 2)
    /\ heatmap[2][3] = 2
    /\ GridSum(heatmap) = 2

(***************************************************************************)
(* VideoProcessor.calculateStats                                           *)
(*                                                                         *)
(* Ball positions are kept doubled, <<x1 + x2, y1 + y2>>, so that a center *)
(* on a half pixel stays exact; a distance d between two centers is        *)
(* compared by its square, 4 * d * d in doubled units.                     *)
(***************************************************************************)
\* const currentPos = [(x1 + x2) / 2, (y1 + y2) / 2], doubled
CurrentPos(bbox) == <<bbox[1] + bbox[3], bbox[2] + bbox[4]>>

\* Math.sqrt(Math.pow(dx, 2) + Math.pow(dy, 2)) > 50
MovedFarGe(currentPos, prevBallPosition) ==
    LET dx == currentPos[1] - prevBallPosition[1]
        dy == currentPos[2] - prevBallPosition[2]
    IN  dx * dx + dy * dy >= 4 * 50 * 50

MovedFar(currentPos, prevBallPosition) ==
    LET dx == currentPos[1] - prevBallPosition[1]
        dy == currentPos[2] - prevBallPosition[2]
    IN  dx * dx + dy * dy > 4 * 50 * 50

\* The body of the for loop of calculateStats, one analysis.
StatsStepRallyReset(acc, analysis) ==
    IF analysis.ball # Null
    THEN LET currentPos == CurrentPos(analysis.ball.bbox)
         IN  [acc EXCEPT
                !.ballDetections = @ + 1,
                !.totalShots =
                    IF acc.prevBallPosition # Null
                       /\ MovedFar(currentPos, acc.prevBallPosition)
                    THEN @ + 1 ELSE @,
                !.prevBallPosition = currentPos,
                !.playerMovements = @ + Len(analysis.players)]
    ELSE [acc EXCEPT !.totalShots = 0,
                     !.playerMovements = @ + Len(analysis.players)]

StatsStep(acc, analysis) ==
    LET withBall ==
            IF analysis.ball # Null
            THEN LET currentPos == CurrentPos(analysis.ball.bbox)
                 IN  [acc EXCEPT
                        !.ballDetections = @ + 1,
                        !.totalShots =
                            IF acc.prevBallPosition # Null
                               /\ MovedFar(currentPos, acc.prevBallPosition)
                            THEN @ + 1 ELSE @,
                        !.prevBallPosition = currentPos]
            ELSE acc
    IN  [withBall EXCEPT !.playerMovements = @ + Len(analysis.players)]

RECURSIVE StatsLoop(_, _)
StatsLoop(acc, analyses) ==
    IF analyses = <<>> THEN acc
    ELSE StatsLoop(StatsStep(acc, Head(analyses)), Tail(analyses))

\* Math.floor(totalShots * 0.15): in IEEE doubles n * 0.15 rounds to a value
\* with the same floor as the exact 15 n / 100 for every n below 2000.
WinnersOfCeil(totalShots) == (15 * totalShots + 99) \div 100

WinnersOf(totalShots) == (15 * totalShots) \div 100

\* Math.floor(totalShots * 0.12), exact in the same range.
ErrorsOfFifth(totalShots) == (20 * totalShots) \div 100

ErrorsOf(totalShots) == (12 * totalShots) \div 100

\* The JavaScript number a / b for integers a >= 0 and b >= 0: the quotient
\* as a fraction, Infinity for a positive a over 0, NaN for 0 / 0.
JsDivide(a, b) ==
    IF b # 0 THEN [kind |-> "finite", num |-> a, den |-> b]
    ELSE IF a # 0 THEN [kind |-> "Infinity", num |-> a, den |-> 0]
    ELSE [kind |-> "NaN", num |-> 0, den |-> 0]

calculateStats(analyses) ==
    LET acc == StatsLoop([totalShots |-> 0, ballDetections |-> 0,
                          playerMovements |-> 0, prevBallPosition |-> Null],
                         analyses)
    IN  [shots |-> acc.totalShots,
         winners |-> WinnersOf(acc.totalShots),
         errors |-> ErrorsOf(acc.totalShots),
         ballDetections |-> acc.ballDetections,
         playerMovements |-> acc.playerMovements,
         averagePlayersPerFrame |-> JsDivide(acc.playerMovements, Len(analyses))]

(***************************************************************************)
(* Specifications of calculateStats on its own.  SpecStats draws the        *)
(* analyses from short sequences over a catalogue of ball positions and    *)
(* player counts; SpecStatsLong from long sequences over two ball          *)
(* positions 100 apart, which reach shot counts with winners and errors.   *)
(***************************************************************************)
BallAt(bbox) == [bbox |-> bbox, score |-> 90, label |-> "sports ball"]

\* Centers (0, 0), (10, 0), (50, 0), (50.5, 0), (100, 0) and (30, 40).
StatsBalls ==
    {Null,
     BallAt(<<-5, -5, 5, 5>>), BallAt(<<5, -5, 15, 5>>), BallAt(<<45, -5, 55, 5>>),
     BallAt(<<46, -5, 55, 5>>), BallAt(<<95, -5, 105, 5>>), BallAt(<<25, 35, 35, 45>>)}

StatsPlayer == [bbox |-> <<0, 0, 40, 100>>, score |-> 90, label |-> "person"]

StatsAnalyses ==
    [frame : {0}, timestamp : {0}, court : {Null},
     players : {<<>>, <<StatsPlayer>>, <<StatsPlayer, StatsPlayer>>},
     ball : StatsBalls]

LongAnalyses ==
    [frame : {0}, timestamp : {0}, court : {Null}, players : {<<>>},
     ball : {BallAt(<<-5, -5, 5, 5>>), BallAt(<<95, -5, 105, 5>>)}]

InitStats ==
    /\ stAnalyses \in SeqsUpTo(StatsAnalyses, MaxAnalyses)
    /\ stats = Null
    /\ stPc = "call"
    /\ IdleFrame
    /\ IdleHeat
    /\ IdleVideo
    /\ IdleUI

InitStatsLong ==
    /\ stAnalyses \in SeqsUpTo(LongAnalyses, MaxLongAnalyses)
    /\ stats = Null
    /\ stPc = "call"
    /\ IdleFrame
    /\ IdleHeat
    /\ IdleVideo
    /\ IdleUI

CalculateStats ==
    /\ stPc = "call"
    /\ stats' = calculateStats(stAnalyses)
    /\ stPc' = "returned"
    /\ UNCHANGED <<stAnalyses, frameVars, heatVars, videoVars, raceVars, uiVars>>

NextStats == CalculateStats

SpecStats == InitStats /\ [][NextStats]_vars

SpecStatsLong == InitStatsLong /\ [][NextStats]_vars

\* Longer sequences of three kinds of analysis: two players and no ball, a
\* ball centered at (0, 0) with one player, a ball centered at (100, 0) alone.
MixedAnalyses ==
    {[frame |-> 0, timestamp |-> 0, court |-> Null,
      players |-> <<StatsPlayer, StatsPlayer>>, ball |-> Null],
     [frame |-> 0, timestamp |-> 0, court |-> Null,
      players |-> <<StatsPlayer>>, ball |-> BallAt(<<-5, -5, 5, 5>>)],
     [frame |-> 0, timestamp |-> 0, court |-> Null,
      players |-> <<>>, ball |-> BallAt(<<95, -5, 105, 5>>)]}

InitStatsMixed ==
    /\ stAnalyses \in SeqsUpTo(MixedAnalyses, MaxMixedAnalyses)
    /\ stats = Null
    /\ stPc = "call"
    /\ IdleFrame
    /\ IdleHeat
    /\ IdleVideo
    /\ IdleUI

SpecStatsMixed == InitStatsMixed /\ [][NextStats]_vars

(***************************************************************************)
(* Claims about calculateStats.                                            *)
(***************************************************************************)
HasBall(a) == a.ball # Null

\* Twice the center of the ball of an analysis.
TwiceCenter(a) == <<a.ball.bbox[1] + a.ball.bbox[3], a.ball.bbox[2] + a.ball.bbox[4]>>

\* The centers of a and b are more than 50 pixels apart.
MoreThan50Apart(a, b) ==
    LET p == TwiceCenter(a)
        q == TwiceCenter(b)
    IN  (p[1] - q[1]) * (p[1] - q[1]) + (p[2] - q[2]) * (p[2] - q[2]) > 10000

\* The number of pairs of successive ball-bearing analyses more than 50 apart.
ShotPairs(analyses) ==
    LET sightings == SelectSeq(analyses, HasBall)
    IN  Cardinality({i \in 1..(Len(sightings) - 1) :
                        MoreThan50Apart(sightings[i], sightings[i + 1])})

\* C6: shots is the number of pairs of successive ball-bearing analyses
\* (ball-less analyses between them skipped) whose ball centers are more
\* than 50 pixels apart; 50 or less adds nothing and the first ball-bearing
\* analysis adds no shot.
C6_ShotPerFarPair ==
    stPc = "returned" =>
        /\ stats.shots = ShotPairs(stAnalyses)
        /\ Len(SelectSeq(stAnalyses, HasBall)) <= 1 => stats.shots = 0

\* C6 witness: a ball at (0, 0), a ball-less analysis, a ball at (50, 0) or
\* at (30, 40), exactly 50 away, were counted as no shot; or a ball at
\* (0, 0), a ball-less analysis and a ball at (50.5, 0) as one shot.
C6_Witness ==
    /\ stPc = "returned"
    /\ Len(stAnalyses) = 3
    /\ stAnalyses[1].ball = BallAt(<<-5, -5, 5, 5>>)
    /\ stAnalyses[2].ball = Null
    /\ \/ stAnalyses[3].ball = BallAt(<<46, -5, 55, 5>>) /\ stats.shots = 1
       \/ stAnalyses[3].ball = BallAt(<<25, 35, 35, 45>>) /\ stats.shots = 0

\* C7: winners = floor(0.15 * shots) and errors = floor(0.12 * shots).
C7_WinnersErrorsRatios ==
    stPc = "returned" =>
        /\ 100 * stats.winners <= 15 * stats.shots
        /\ 15 * stats.shots < 100 * (stats.winners + 1)
        /\ 100 * stats.errors <= 12 * stats.shots
        /\ 12 * stats.shots < 100 * (stats.errors + 1)

\* C7 witness: 14 shots gave 2 winners and 1 error.
C7_Witness ==
    stPc = "returned" /\ stats.shots = 14 /\ stats.winners = 2 /\ stats.errors = 1

\* C8: appending one analysis never lowers the shot count and raises it by
\* at most 1.
C8_ShotsMonotoneUnderAppend ==
    stPc = "returned" =>
        \A f \in StatsAnalyses :
            LET after == calculateStats(Append(stAnalyses, f)).shots
            IN  stats.shots <= after /\ after <= stats.shots + 1

\* C8 witness: a sequence with one shot already counted, a ball-less last
\* analysis, one possible next analysis that adds a shot and one that adds
\* none.
C8_Witness ==
    /\ stPc = "returned"
    /\ stats.shots = 1
    /\ Len(stAnalyses) = 3 /\ stAnalyses[3].ball = Null
    /\ \E f \in StatsAnalyses : calculateStats(Append(stAnalyses, f)).shots = 2
    /\ \E f \in StatsAnalyses :
          f.ball # Null /\ calculateStats(Append(stAnalyses, f)).shots = 1

\* The JavaScript number 0.
IsZero(x) == x.kind = "finite" /\ x.num = 0

\* C9: for an empty analysis sequence shots, winners and errors are 0 and
\* the average players per frame is the number 0, not a non-numeric value.
C9_EmptyStatsAllZero ==
    (stPc = "returned" /\ stAnalyses = <<>>) =>
        /\ stats.shots = 0 /\ stats.winners = 0 /\ stats.errors = 0
        /\ IsZero(stats.averagePlayersPerFrame)

(***************************************************************************)
(* JavaScript numbers for the time cursor of processVideo.                 *)
(*                                                                         *)
(* A time is an IEEE 754 double below 8, kept exactly as <<hi, lo>>: the   *)
(* value is (hi * Base + lo) * 2^-55 with 0 <= lo < Base = 2^27.  Every    *)
(* double in [0, 8) that the cursor takes is a multiple of 2^-55.  NaN is  *)
(* the duration of a video whose metadata is not loaded.                   *)
(***************************************************************************)
Base == 134217728

NaN == <<-1, -1>>

DblZero == <<0, 0>>

\* k * 0.5
HalfSeconds(k) == <<k * Base, 0>>

\* a < b on doubles: false when either side is NaN
DblLess(a, b) ==
    /\ a # NaN
    /\ b # NaN
    /\ (a[1] < b[1] \/ (a[1] = b[1] /\ a[2] < b[2]))

\* The spacing of the doubles around hi * Base * 2^-55, in units of 2^-55:
\* 53 significant bits.
Ulp(hi) ==
    IF hi < 67108864 THEN 1
    ELSE IF hi < 134217728 THEN 2
    ELSE IF hi < 268435456 THEN 4
    ELSE IF hi < 536870912 THEN 8
    ELSE IF hi < 1073741824 THEN 16
    ELSE 32

\* a + b on doubles: the exact sum rounded to nearest, ties to even.
DblAdd(a, b) ==
    LET lo   == (a[2] + b[2]) % Base
        hi   == a[1] + b[1] + ((a[2] + b[2]) \div Base)
        u    == Ulp(hi)
        r    == lo % u
        down == lo - r
        up   == 2 * r > u \/ (u > 1 /\ 2 * r = u /\ (down \div u) % 2 = 1)
        lo2  == IF up THEN down + u ELSE down
    IN  IF lo2 = Base THEN <<hi + 1, 0>> ELSE <<hi, lo2>>

\* frameInterval * 5 with frameInterval = 1 / 30: the double
\* 0.16666666666666666 = 6004799503160661 * 2^-55
FrameStep == <<44739242, 89478485>>

(***************************************************************************)
(* VideoProcessor.initialize and VideoProcessor.processVideo.              *)
(*                                                                         *)
(* Each action is the code that runs between two suspension points: the    *)
(* await of pipeline(...), the await of the 'seeked' event and the await   *)
(* of the detector.                                                        *)
(***************************************************************************)
\* What the detector may return for a frame.
DetectorOutputs ==
    {<<>>,
     <<[bbox |-> <<0, 0, 40, 100>>, score |-> 90, label |-> "person"],
       [bbox |-> <<0, 0, 10, 10>>, score |-> 90, label |-> "sports ball"]>>}

\* The state after new VideoProcessor(), with a video and a canvas at hand.
InitWith(durations, sizes) ==
    /\ IdleFrame
    /\ IdleHeat
    /\ IdleStats
    /\ initialized = FALSE
    /\ objectDetector = Null
    /\ pipelineCalls = 0
    /\ initializeCalls = 0
    /\ video \in {[duration |-> d, videoWidth |-> size[1], videoHeight |-> size[2]] :
                    d \in durations, size \in sizes}
    /\ canvas \in [hasContext : BOOLEAN, width : {300}, height : {150}]
    /\ call = "none"
    /\ pc = "idle"
    /\ duration = Null
    /\ currentTime = Null
    /\ frameNumber = 0
    /\ results = <<>>
    /\ seekLog = <<>>
    /\ frameLog = <<>>
    /\ progressLog = <<>>
    /\ errorLog = <<>>
    /\ initErrors = 0
    /\ events = <<>>
    /\ responseLog = <<>>
    /\ resultsId = 0
    /\ finished = <<>>
    /\ installs = 0
    /\ loads = {}
    /\ IdleUI

Init ==
    InitWith({HalfSeconds(k) : k \in 0..MaxHalfSeconds} \cup {NaN},
             {<<0, 0>>, <<640, 360>>})

\* while (currentTime < duration) { video.currentTime = currentTime;
\* await new Promise(... 'seeked' ...)   or, past the loop, return results.
\* evts is what the running step has done so far.
LoopHead(t, d, evts) ==
    IF DblLess(t, d)
    THEN /\ seekLog' = Append(seekLog, t)
         /\ events' = Append(evts, "seek")
         /\ pc' = "awaitSeeked"
    ELSE /\ pc' = "returned"
         /\ events' = evts
         /\ UNCHANGED seekLog

\* const results = []: a new array object, distinct from the arrays of the
\* earlier calls in fin.
NewArrayReused(fin) == 1

NewArray(fin) == Len(fin) + 1

\* The earlier calls after the array object id takes the content given:
\* every reference to that object sees it.
Store(fin, id, content) ==
    [k \in DOMAIN fin |->
        IF fin[k].id = id THEN [fin[k] EXCEPT !.value = content] ELSE fin[k]]

\* processVideo from canvas.getContext('2d') to the first suspension; fin is
\* the record of the earlier calls.
Setup(fin) ==
    IF ~canvas.hasContext
    THEN /\ pc' = "rejected"
         /\ finished' = fin
         /\ UNCHANGED <<canvas, duration, currentTime, frameNumber, results,
                        seekLog, events, resultsId>>
    ELSE /\ canvas' = [canvas EXCEPT !.width = video.videoWidth,
                                     !.height = video.videoHeight]
         /\ duration' = video.duration
         /\ resultsId' = NewArray(fin)
         /\ results' = <<>>
         /\ finished' = Store(fin, NewArray(fin), <<>>)
         /\ currentTime' = DblZero
         /\ frameNumber' = 0
         /\ LoopHead(DblZero, video.duration, events)

\* processVideo from the progress report to the next suspension
AdvanceReportsNext(evts) ==
    /\ progressLog' = Append(progressLog, [time     |-> DblAdd(currentTime, FrameStep),
                                           duration |-> duration])
    /\ currentTime' = DblAdd(currentTime, FrameStep)
    /\ frameNumber' = frameNumber + 1
    /\ LoopHead(DblAdd(currentTime, FrameStep), duration, Append(evts, "onProgress"))

Advance(evts) ==
    /\ progressLog' = Append(progressLog, [time |-> currentTime, duration |-> duration])
    /\ currentTime' = DblAdd(currentTime, FrameStep)
    /\ frameNumber' = frameNumber + 1
    /\ LoopHead(DblAdd(currentTime, FrameStep), duration, Append(evts, "onProgress"))

\* The caller calls initialize().
CallInitializeAlwaysLoads ==
    /\ call = "none" /\ pc = "idle"
    /\ initializeCalls < MaxInitializeCalls
    /\ initializeCalls' = initializeCalls + 1
    /\ pipelineCalls' = pipelineCalls + 1
    /\ call' = "initialize"
    /\ pc' = "awaitPipeline"
    /\ UNCHANGED <<initialized, objectDetector, installs, elementVars, duration,
                   currentTime, frameNumber, results, logVars, heapVars, pureVars,
                   raceVars, uiVars>>

CallInitialize ==
    /\ call = "none" /\ pc = "idle"
    /\ initializeCalls < MaxInitializeCalls
    /\ initializeCalls' = initializeCalls + 1
    /\ IF initialized
       THEN UNCHANGED <<call, pc, pipelineCalls>>
       ELSE /\ pipelineCalls' = pipelineCalls + 1
            /\ call' = "initialize"
            /\ pc' = "awaitPipeline"
    /\ UNCHANGED <<initialized, objectDetector, installs, elementVars, duration,
                   currentTime, frameNumber, results, logVars, heapVars, pureVars,
                   raceVars, uiVars>>

\* processVideo from its first line to its first suspension; fin is the
\* record of the earlier calls.
Enter(fin) ==
    /\ call' = "processVideo"
    /\ IF ~initialized
       THEN /\ pipelineCalls' = pipelineCalls + 1
            /\ pc' = "awaitPipeline"
            /\ finished' = fin
            /\ UNCHANGED <<canvas, duration, currentTime, frameNumber, results,
                           seekLog, events, resultsId>>
       ELSE /\ Setup(fin)
            /\ UNCHANGED pipelineCalls
    /\ UNCHANGED <<initialized, objectDetector, initializeCalls, installs, video,
                   frameLog, progressLog, errorLog, initErrors, responseLog, pureVars, raceVars, uiVars>>

\* The caller calls processVideo(video, canvas, onProgress, onFrame).
CallProcessVideo ==
    /\ call = "none" /\ pc = "idle"
    /\ Enter(finished)

\* The caller, holding what the last processVideo call returned, calls
\* processVideo again with the same video and canvas.
CallProcessVideoAgain ==
    /\ call = "processVideo" /\ pc \in {"returned", "rejected"}
    /\ Len(finished) < MaxRepeatCalls
    /\ Enter(Append(finished, [outcome   |-> pc,
                               id        |-> resultsId,
                               returned  |-> results,
                               value     |-> results,
                               responses |-> Len(responseLog)]))

\* pipeline(...) resolves: initialize() stores the detector and returns.
PipelineResolves ==
    /\ pc = "awaitPipeline"
    /\ objectDetector' = [pipeline |-> pipelineCalls]
    /\ installs' = installs + 1
    /\ initialized' = TRUE
    /\ IF call = "initialize"
       THEN /\ call' = "none"
            /\ pc' = "idle"
            /\ UNCHANGED <<canvas, duration, currentTime, frameNumber, results,
                           seekLog, events, heapVars>>
       ELSE /\ Setup(finished)
            /\ UNCHANGED call
    /\ UNCHANGED <<pipelineCalls, initializeCalls, video,
                   frameLog, progressLog, errorLog, initErrors, responseLog, pureVars, raceVars, uiVars>>

\* pipeline(...) rejects: initialize() logs and rethrows; processVideo does
\* not catch it.
PipelineRejects ==
    /\ pc = "awaitPipeline"
    /\ initErrors' = initErrors + 1
    /\ IF call = "initialize"
       THEN call' = "none" /\ pc' = "idle"
       ELSE pc' = "rejected" /\ UNCHANGED call
    /\ UNCHANGED <<processorVars, elementVars, duration, currentTime, frameNumber,
                   results, seekLog, frameLog, progressLog, errorLog, events,
                   responseLog, heapVars, pureVars, raceVars, uiVars>>

\* The 'seeked' event fires: the frame is drawn and processFrame is called,
\* which throws when the processor is not initialized and otherwise awaits
\* the detector.
SeekedNoAwait ==
    /\ pc = "awaitSeeked"
    /\ Advance(events \o <<"seeked", "draw", "detect">>)
    /\ UNCHANGED <<processorVars, elementVars, call, duration, results, frameLog,
                   errorLog, initErrors, responseLog, heapVars, pureVars, raceVars, uiVars>>

Seeked ==
    /\ pc = "awaitSeeked"
    /\ IF ~initialized
       THEN /\ errorLog' = Append(errorLog, frameNumber)
            /\ Advance(events \o <<"seeked", "draw", "error">>)
       ELSE /\ pc' = "awaitDetector"
            /\ events' = events \o <<"seeked", "draw", "detect">>
            /\ UNCHANGED <<currentTime, frameNumber, seekLog, progressLog, errorLog>>
    /\ UNCHANGED <<processorVars, elementVars, call, duration, results, frameLog,
                   initErrors, responseLog, heapVars, pureVars, raceVars, uiVars>>

\* The detector returns dets: processFrame classifies them, processVideo
\* pushes the analysis, calls onFrame and onProgress and moves on.
DetectorReturns(dets) ==
    /\ pc = "awaitDetector"
    /\ responseLog' = Append(responseLog, [kind |-> "returned", dets |-> dets])
    /\ LET analysis == processFrame(dets, frameNumber, currentTime)
       IN  /\ results' = Append(results, analysis)
           /\ finished' = Store(finished, resultsId, Append(results, analysis))
           /\ frameLog' = Append(frameLog, analysis)
    /\ Advance(events \o <<"detected", "push", "onFrame">>)
    /\ UNCHANGED <<processorVars, elementVars, call, duration, errorLog,
                   initErrors, resultsId, pureVars, raceVars, uiVars>>

\* The detector call (or the classification of its output) throws:
\* processFrame logs and rethrows, processVideo logs the frame number, calls
\* onProgress and moves on.
DetectorThrowsAborts ==
    /\ pc = "awaitDetector"
    /\ responseLog' = Append(responseLog, [kind |-> "threw", dets |-> <<>>])
    /\ errorLog' = Append(errorLog, frameNumber)
    /\ events' = events \o <<"detectFailed", "error">>
    /\ pc' = "rejected"
    /\ UNCHANGED <<processorVars, elementVars, call, duration, currentTime,
                   frameNumber, results, seekLog, frameLog, progressLog,
                   initErrors, heapVars, pureVars, raceVars, uiVars>>

DetectorThrows ==
    /\ pc = "awaitDetector"
    /\ responseLog' = Append(responseLog, [kind |-> "threw", dets |-> <<>>])
    /\ errorLog' = Append(errorLog, frameNumber)
    /\ Advance(events \o <<"detectFailed", "error">>)
    /\ UNCHANGED <<processorVars, elementVars, call, duration, results, frameLog,
                   initErrors, heapVars, pureVars, raceVars, uiVars>>

\* The detector answers the outstanding call, one way or the other.
DetectorResponds ==
    \/ \E dets \in DetectorOutputs : DetectorReturns(dets)
    \/ DetectorThrows

Next ==
    \/ CallInitialize
    \/ CallProcessVideo
    \/ PipelineResolves
    \/ PipelineRejects
    \/ Seeked
    \/ \E dets \in DetectorOutputs : DetectorReturns(dets)
    \/ DetectorThrows

Spec == Init /\ [][Next]_vars

\* Spec when every seek eventually fires 'seeked' and every detector call
\* eventually returns or throws.
SpecLive == Spec /\ WF_vars(Seeked) /\ WF_vars(DetectorResponds)

(***************************************************************************)
(* Specification of repeated processVideo calls on one VideoProcessor,     *)
(* with the same video and canvas.                                         *)
(***************************************************************************)
RepeatOutputs ==
    {<<[bbox |-> <<0, 0, 40, 100>>, score |-> 90, label |-> "person"],
       [bbox |-> <<0, 0, 10, 10>>, score |-> 90, label |-> "sports ball"]>>}

InitRepeat ==
    InitWith({HalfSeconds(k) : k \in 0..MaxRepeatHalfSeconds} \cup {NaN},
             {<<640, 360>>})

NextRepeat ==
    \/ CallProcessVideo
    \/ CallProcessVideoAgain
    \/ PipelineResolves
    \/ PipelineRejects
    \/ Seeked
    \/ \E dets \in RepeatOutputs : DetectorReturns(dets)
    \/ DetectorThrows

SpecRepeat == InitRepeat /\ [][NextRepeat]_vars

\* ---------------------------------------------------------------------------
\* Overlapping calls on one VideoProcessor: the caller does not wait for an
\* earlier initialize() before it calls initialize() or processVideo() again.
\* Each awaited pipeline(...) promise is a record in loads: the number of the
\* load and the call that awaits it.

\* initialize(), called whether or not an earlier call is still suspended.
CallInitializeOverlapping ==
    /\ initializeCalls < MaxOverlappingCalls
    /\ initializeCalls' = initializeCalls + 1
    /\ IF initialized
       THEN UNCHANGED <<pipelineCalls, loads>>
       ELSE /\ pipelineCalls' = pipelineCalls + 1
            /\ loads' = loads \cup {[id |-> pipelineCalls + 1, caller |-> "initialize"]}
    /\ UNCHANGED <<initialized, objectDetector, installs, elementVars, runVars,
                   logVars, heapVars, pureVars, uiVars>>

\* processVideo(...), called whether or not an initialize() is still suspended.
CallProcessVideoOverlapping ==
    /\ call = "none" /\ pc = "idle"
    /\ call' = "processVideo"
    /\ IF ~initialized
       THEN /\ pipelineCalls' = pipelineCalls + 1
            /\ loads' = loads \cup {[id |-> pipelineCalls + 1, caller |-> "processVideo"]}
            /\ pc' = "awaitPipeline"
            /\ UNCHANGED <<canvas, duration, currentTime, frameNumber, results,
                           seekLog, events, heapVars>>
       ELSE /\ Setup(finished)
            /\ UNCHANGED <<pipelineCalls, loads>>
    /\ UNCHANGED <<initialized, objectDetector, initializeCalls, installs, video,
                   frameLog, progressLog, errorLog, initErrors, responseLog,
                   pureVars, uiVars>>

\* One of the awaited pipeline(...) promises resolves: the initialize() that
\* awaits it stores the detector and sets the flag; processVideo goes on.
LoadResolves(l) ==
    /\ l \in loads
    /\ loads' = loads \ {l}
    /\ objectDetector' = [pipeline |-> l.id]
    /\ installs' = installs + 1
    /\ initialized' = TRUE
    /\ IF l.caller = "processVideo"
       THEN /\ Setup(finished)
            /\ UNCHANGED call
       ELSE UNCHANGED <<call, pc, canvas, duration, currentTime, frameNumber,
                        results, seekLog, events, heapVars>>
    /\ UNCHANGED <<pipelineCalls, initializeCalls, video, frameLog, progressLog,
                   errorLog, initErrors, responseLog, pureVars, uiVars>>

\* One of the awaited pipeline(...) promises rejects: initialize() logs and
\* rethrows, which rejects the processVideo that called it.
LoadRejects(l) ==
    /\ l \in loads
    /\ loads' = loads \ {l}
    /\ initErrors' = initErrors + 1
    /\ IF l.caller = "processVideo" THEN pc' = "rejected" ELSE UNCHANGED pc
    /\ UNCHANGED <<processorVars, elementVars, call, duration, currentTime,
                   frameNumber, results, seekLog, frameLog, progressLog, errorLog,
                   events, responseLog, heapVars, pureVars, uiVars>>

NextRace ==
    \/ CallInitializeOverlapping
    \/ CallProcessVideoOverlapping
    \/ \E l \in loads : LoadResolves(l)
    \/ \E l \in loads : LoadRejects(l)
    \/ Seeked
    \/ \E dets \in RepeatOutputs : DetectorReturns(dets)
    \/ DetectorThrows

SpecRace == InitRepeat /\ [][NextRace]_vars

\* ---------------------------------------------------------------------------
\* The TennisAnalyzer component: the form, downloadVideo and analyzeVideo.
\* A text is a sequence of pieces; 'youtube.com' and 'youtu.be' are the
\* pieces below, so that includes() has to search.

YoutubeCom == <<"youtu", "be", ".", "com">>

YoutuBe == <<"youtu", ".", "be">>

\* What the user may type: a youtube.com link, a youtu.be link, a link to
\* another site, the word youtube, nothing.
Urls ==
    {<<"https://", "www", ".", "youtu", "be", ".", "com", "/watch">>,
     <<"https://", "youtu", ".", "be", "/abc">>,
     <<"https://", "vimeo", ".", "com", "/abc">>,
     <<"youtu", "be">>,
     <<>>}

\* String.prototype.includes
Includes(text, part) ==
    \E i \in 0..(Len(text) - Len(part)) : SubSeq(text, i + 1, i + Len(part)) = part

SampleVideo == "https://commondatastorage.googleapis.com/gtv-videos-bucket/sample/ForBiggerEscapes.mp4"

\* videoRef.current and canvasRef.current are set exactly while the block
\* {videoLoaded && (... <video ref={videoRef}/> <canvas ref={canvasRef}/> ...)}
\* is rendered.
RefsMounted == videoLoaded

InitUI ==
    /\ IdleFrame
    /\ IdleHeat
    /\ IdleStats
    /\ IdleVideo
    /\ IdleUI

\* onChange of the input, which is disabled while isAnalyzing.
SetYoutubeUrl(u) ==
    /\ ~isAnalyzing
    /\ youtubeUrl' = u
    /\ UNCHANGED <<isAnalyzing, videoLoaded, videoSrc, downloading, toasts, submits,
                   analysisRuns, submitsEnded, pureVars, videoVars, raceVars>>

\* The form is submitted (the button is disabled while isAnalyzing or while
\* the input is empty): handleSubmit up to the timer of downloadVideo.
HandleSubmit ==
    /\ ~isAnalyzing /\ youtubeUrl # <<>>
    /\ submits < MaxSubmits
    /\ submits' = submits + 1
    /\ IF ~Includes(youtubeUrl, YoutubeCom) /\ ~Includes(youtubeUrl, YoutuBe)
       THEN /\ toasts' = Append(toasts, "URL inválida")
            /\ submitsEnded' = submitsEnded + 1
            /\ UNCHANGED downloading
       ELSE /\ toasts' = Append(toasts, "Processando vídeo")
            /\ downloading' = downloading + 1
            /\ UNCHANGED submitsEnded
    /\ UNCHANGED <<youtubeUrl, isAnalyzing, videoLoaded, videoSrc, analysisRuns,
                   pureVars, videoVars, raceVars>>

\* The 2000 ms timer of a downloadVideo fires: the rest of downloadVideo,
\* then handleSubmit calls analyzeVideo, which returns at once without the
\* two elements and otherwise runs up to its await of processor.initialize().
DownloadTimerFires ==
    /\ downloading > 0
    /\ downloading' = downloading - 1
    /\ IF RefsMounted
       THEN /\ videoSrc' = SampleVideo
            /\ videoLoaded' = TRUE
            /\ isAnalyzing' = TRUE
            /\ toasts' = Append(toasts, "Inicializando IA")
            /\ analysisRuns' = analysisRuns + 1
            /\ initializeCalls' = initializeCalls + 1
            /\ IF initialized
               THEN UNCHANGED <<pipelineCalls, loads>>
               ELSE /\ pipelineCalls' = pipelineCalls + 1
                    /\ loads' = loads \cup {[id |-> pipelineCalls + 1,
                                              caller |-> "initialize"]}
            /\ UNCHANGED submitsEnded
       ELSE /\ submitsEnded' = submitsEnded + 1
            /\ UNCHANGED <<videoSrc, videoLoaded, isAnalyzing, toasts, analysisRuns,
                           initializeCalls, pipelineCalls, loads>>
    /\ UNCHANGED <<youtubeUrl, submits, initialized, objectDetector, installs,
                   elementVars, runVars, logVars, heapVars, pureVars>>

\* The steps a behaviour from InitUI takes. The steps behind analyzeVideo's
\* awaits and the handlers of the video block (onLoadedData, play / pause,
\* reset) need RefsMounted, which these steps never establish.
NextUI ==
    \/ \E u \in Urls : SetYoutubeUrl(u)
    \/ HandleSubmit
    \/ DownloadTimerFires

SpecUI == InitUI /\ [][NextUI]_vars

(***************************************************************************)
(* Claims about processVideo.                                              *)
(***************************************************************************)
EmptyAnalysis(a) == a.players = <<>> /\ a.ball = Null /\ a.court = Null

\* C10: a sampled frame whose analysis failed is still recorded, as an
\* analysis with no players, no ball and no court, so the sequence returned
\* has one entry per sampled time.
C10_FailedFrameRecorded ==
    pc = "returned" =>
        /\ Len(results) = Len(seekLog)
        /\ \A k \in 1..Len(errorLog) :
              \E i \in 1..Len(results) :
                  results[i].frame = errorLog[k] /\ EmptyAnalysis(results[i])

\* C11: a frame failure never aborts processVideo: once a frame has failed
\* the call is not rejected, the sample after the failed one is sought when
\* it lies before the duration, and at the return the seeks went step by
\* step up to the last sample time below the duration.
C11_FailureDoesNotAbort ==
    (call = "processVideo" /\ errorLog # <<>>) =>
        /\ pc # "rejected"
        /\ \A k \in 1..Len(errorLog) :
              LET f == errorLog[k]
              IN  DblLess(DblAdd(seekLog[f + 1], FrameStep), duration)
                      => Len(seekLog) >= f + 2
        /\ pc = "returned" =>
              /\ \A i \in 1..(Len(seekLog) - 1) :
                    seekLog[i + 1] = DblAdd(seekLog[i], FrameStep)
              /\ ~DblLess(DblAdd(seekLog[Len(seekLog)], FrameStep), duration)

\* C11 witness: the first frame failed, two later samples were sought and
\* analysed, and the call returned.
C11_Witness ==
    /\ pc = "returned"
    /\ Len(errorLog) = 1 /\ errorLog[1] = 0
    /\ Len(seekLog) = 3
    /\ Len(results) = 2

\* C12: when initialize() has failed, processVideo is not rejected for it:
\* it sweeps the video and returns one analysis per sampled frame, each with
\* no players, no ball and no court.
C12_InitFailureNotFatal ==
    (call = "processVideo" /\ initErrors > 0 /\ canvas.hasContext) =>
        /\ pc # "rejected"
        /\ pc = "returned" =>
              /\ Len(results) = Len(seekLog)
              /\ \A i \in 1..Len(results) : EmptyAnalysis(results[i])

\* t is the double next to i / 6 (i * (5 / 30) seconds), up to rounding.
NearSixths(t, i) == Abs(t[1] - ((i * Base) \div 3)) <= 1

\* C13: for a duration of k half seconds processVideo seeks ceil(D * 30 / 5)
\* = 3 k times, at i * (5 / 30) for i = 0, 1, ... in increasing order, each
\* once; for a duration of 0 nothing is sought, no callback runs and the
\* result is empty.
C13_SampleTimes ==
    (pc = "returned" /\ duration # NaN) =>
        /\ Len(seekLog) = 3 * (duration[1] \div Base)
        /\ \A i \in 1..Len(seekLog) : NearSixths(seekLog[i], i - 1)
        /\ \A i \in 1..(Len(seekLog) - 1) : DblLess(seekLog[i], seekLog[i + 1])
        /\ duration = DblZero =>
              seekLog = <<>> /\ frameLog = <<>> /\ progressLog = <<>> /\ results = <<>>

\* How many of the first n events are in the set kinds.
Count(kinds, n) == Cardinality({i \in 1..n : events[i] \in kinds})

\* After the first n events: seeks not yet answered by 'seeked', and
\* detector calls not yet returned or failed.
SeeksOutstanding(n) == Count({"seek"}, n) - Count({"seeked"}, n)

DetectsOutstanding(n) == Count({"detect"}, n) - Count({"detected", "detectFailed"}, n)

\* The event prefixes not yet covered by the state before the last step: a
\* step adds at most six events.
RecentPrefixes == {n \in 0..Len(events) : n >= Len(events) - 6}

\* C14: at every point of a run at most one seek and at most one detector
\* call are outstanding; a frame is drawn and sent to the detector only
\* after the 'seeked' of its seek, with no seek outstanding; and a seek is
\* issued only when no detector call is outstanding and every earlier
\* sample's detector call has returned or failed.
C14_StepsStrictlyOrdered ==
    \A n \in RecentPrefixes :
        /\ SeeksOutstanding(n) \in {0, 1}
        /\ DetectsOutstanding(n) \in {0, 1}
        /\ n > 0 /\ events[n] \in {"draw", "detect"} =>
              /\ SeeksOutstanding(n) = 0
              /\ Count({events[n]}, n) = Count({"seeked"}, n)
        /\ n > 0 /\ events[n] = "detect" => Count({"detect"}, n) = Count({"draw"}, n)
        /\ n > 0 /\ events[n] = "seek" =>
              /\ DetectsOutstanding(n) = 0
              /\ Count({"seek"}, n) = Count({"detected", "detectFailed"}, n) + 1

\* C14 witness: a second seek was issued after the first frame's detector
\* call had failed, and its frame is at the detector.
C14_Witness ==
    /\ pc = "awaitDetector"
    /\ Count({"seek"}, Len(events)) = 2
    /\ Count({"detectFailed"}, Len(events)) = 1
    /\ DetectsOutstanding(Len(events)) = 1

\* C15: every analysis pushed to the results is passed to onFrame, the same
\* one, right after the push and right before onProgress; onProgress runs
\* once per sampled time, failed frames included, with currentTime /
\* duration * 100 for that sample's time, a value in [0, 100] that grows
\* strictly over the run.  The quotient is kept by its operands: both are
\* non-negative doubles of the same run, division and multiplication of
\* doubles are rounded monotonically, and two sample times differ by more
\* than a rounding step, so the values are ordered as the times are.
C15_CallbacksPerFrame ==
    /\ frameLog = results
    /\ \A n \in RecentPrefixes :
          n > 0 /\ events[n] = "onProgress" /\ events[n - 1] # "error" =>
              events[n - 1] = "onFrame" /\ events[n - 2] = "push"
    /\ \A n \in RecentPrefixes :
          n > 0 /\ events[n] \in {"push", "onFrame"} =>
              /\ n + 1 <= Len(events)
              /\ events[n + 1] = (IF events[n] = "push" THEN "onFrame" ELSE "onProgress")
    /\ Count({"push"}, Len(events)) = Len(results)
    /\ Count({"onFrame"}, Len(events)) = Len(frameLog)
    /\ Count({"onProgress"}, Len(events)) = Len(progressLog)
    /\ Len(progressLog) = Len(results) + Len(errorLog)
    /\ pc = "returned" => Len(progressLog) = Len(seekLog)
    /\ \A i \in 1..Len(progressLog) :
          /\ progressLog[i].time = seekLog[i]
          /\ progressLog[i].duration = duration
          /\ ~DblLess(progressLog[i].time, DblZero)
          /\ DblLess(progressLog[i].time, progressLog[i].duration)
    /\ \A i \in 1..(Len(progressLog) - 1) :
          DblLess(progressLog[i].time, progressLog[i + 1].time)

\* C15 witness: a run of three samples returned after the second frame
\* failed; onFrame ran twice and onProgress three times.
C15_Witness ==
    /\ pc = "returned"
    /\ errorLog = <<1>>
    /\ Len(frameLog) = 2
    /\ Len(progressLog) = 3
    /\ frameLog[2].ball # Null

\* C16: in the sequence returned the frame numbers start at 0 and grow
\* strictly, the timestamps never decrease, and each timestamp is its frame
\* number times 5 / 30, also when some frames failed.
C16_FramesFromZero ==
    (pc = "returned" /\ results # <<>>) =>
        /\ results[1].frame = 0
        /\ \A i \in 1..(Len(results) - 1) :
              /\ results[i].frame < results[i + 1].frame
              /\ ~DblLess(results[i + 1].timestamp, results[i].timestamp)
        /\ \A i \in 1..Len(results) : NearSixths(results[i].timestamp, results[i].frame)

\* C17: once initialize() has succeeded no step loads the detector again or
\* replaces it, whether the caller calls initialize() or processVideo().
C17_InitializeIdempotent ==
    [][initialized =>
          /\ initialized'
          /\ pipelineCalls' = pipelineCalls
          /\ objectDetector' = objectDetector]_vars

\* C17 witness: initialize() succeeded, was called again, and processVideo
\* then ran to its return, all on a single detector load.
C17_Witness ==
    /\ initialized
    /\ initializeCalls = 2
    /\ pipelineCalls = 1
    /\ objectDetector = [pipeline |-> 1]
    /\ call = "processVideo" /\ pc = "returned" /\ seekLog # <<>>

\* C18: with no 2D context, or with a video width or height of 0,
\* processVideo raises an error before sampling: it is rejected without a
\* seek, a draw, a detector call or a callback.
C18_FatalPreconditions ==
    ( /\ call = "processVideo"
      /\ pc # "awaitPipeline"
      /\ (~canvas.hasContext \/ video.videoWidth = 0 \/ video.videoHeight = 0) ) =>
        /\ pc = "rejected"
        /\ seekLog = <<>> /\ events = <<>>
        /\ frameLog = <<>> /\ progressLog = <<>>

\* The detector responses consumed by the k-th finished call, and by the
\* call in progress.
ResponsesOf(k) ==
    SubSeq(responseLog,
           (IF k = 1 THEN 0 ELSE finished[k - 1].responses) + 1,
           finished[k].responses)

CurrentResponses ==
    SubSeq(responseLog,
           (IF finished = <<>> THEN 0 ELSE finished[Len(finished)].responses) + 1,
           Len(responseLog))

\* C19: processVideo keeps nothing between calls. A later call on the same
\* processor and video starts with the time cursor at 0, the frame counter
\* at 0 and an empty result sequence of its own; when it receives the same
\* detector responses as an earlier call it returns an equal sequence; and
\* the sequence an earlier call returned is never changed by a later call.
C19_NoRetainedState ==
    \A k \in DOMAIN finished :
        /\ finished[k].value = finished[k].returned
        /\ (finished[k].outcome = "returned" /\ pc # "rejected") =>
              resultsId # finished[k].id
        /\ (pc = "awaitSeeked" /\ CurrentResponses = <<>>) =>
              (currentTime = DblZero /\ frameNumber = 0 /\ results = <<>>)
        /\ ( /\ pc = "returned"
             /\ finished[k].outcome = "returned"
             /\ CurrentResponses = ResponsesOf(k) ) =>
              results = finished[k].returned

\* C19 witness: a second call has returned after the same responses as the
\* first one, one frame analysed and one failed, and the two sequences are
\* equal and not empty.
C19_Witness ==
    /\ Len(finished) = 1
    /\ finished[1].outcome = "returned"
    /\ pc = "returned"
    /\ CurrentResponses = ResponsesOf(1)
    /\ \E i \in DOMAIN CurrentResponses : CurrentResponses[i].kind = "threw"
    /\ results # <<>>
    /\ results = finished[1].returned
    /\ finished[1].value = results

\* C20: when every seek is eventually answered by 'seeked' and every
\* detector call eventually returns or fails, a processVideo call that has
\* started sampling eventually returns; and while a 'seeked' signal is
\* awaited nothing happens but that signal: no draw, no detector call, no
\* callback and no return.
C20_Terminates ==
    /\ (pc \in {"awaitSeeked", "awaitDetector"}) ~> (pc = "returned")
    /\ [][pc = "awaitSeeked" => Seeked]_vars

\* C20 witness: a call on a video of positive duration returned after
\* sampling, with a frame analysed and a frame failed on the way.
C20_Witness ==
    /\ pc = "returned"
    /\ DblLess(DblZero, duration)
    /\ Len(seekLog) >= 3
    /\ frameLog # <<>> /\ errorLog # <<>>
    /\ Len(progressLog) = Len(seekLog)

\* C21: overlapping calls load the detector at most once: at no time are two
\* pipeline loads awaited on the same VideoProcessor, and no later call
\* overwrites the detector a first call installed.
C21_LoadsAtMostOnce ==
    /\ Cardinality(loads) <= 1
    /\ installs <= 1

\* The rearrangements of a sequence.
PermutationsOf(A) ==
    {[i \in 1..Len(A) |-> A[p[i]]] :
        p \in {q \in [1..Len(A) -> 1..Len(A)] : \A i, j \in 1..Len(A) : q[i] = q[j] => i = j}}

\* The cell-wise sum of two grids of the same shape.
GridPlus(g, h) == [r \in DOMAIN g |-> [c \in DOMAIN g[r] |-> g[r][c] + h[r][c]]]

\* C22: generateHeatmap does not depend on the order of the analyses and is
\* additive: every rearrangement of the input gives the grid returned, the
\* grid of A ++ B is the cell-wise sum of the grids of A and of B for the
\* same width, height and kind, and the call leaves its input as it was.
\* Stated of every step in which the call returns (hmPc changes).
C22_HeatmapOrderFreeAdditive ==
    [][(hmPc = "call" /\ hmPc' = "returned") =>
          LET in == hmInput
              A  == in.analyses
          IN  /\ hmInput' = in
              /\ \A P \in PermutationsOf(A) :
                    generateHeatmap(P, in.width, in.height, in.type) = heatmap'
              /\ \A k \in 0..Len(A) :
                    heatmap' = GridPlus(
                        generateHeatmap(SubSeq(A, 1, k), in.width, in.height, in.type),
                        generateHeatmap(SubSeq(A, k + 1, Len(A)), in.width, in.height,
                                        in.type))]_hmPc

\* C22 witness: a players heatmap was built from two different analyses
\* that both mark the cell of row 1, column 2, which therefore holds 2.
C22_Witness ==
    /\ hmPc = "returned"
    /\ hmInput.type = "players" /\ hmInput.width = 3 /\ hmInput.height = 2
    /\ Len(hmInput.analyses) = 2
    /\ hmInput.analyses[1] # hmInput.analyses[2]
    /\ Len(hmInput.analyses[1].players) = 2
    /\ heatmap[2][3] = 2
    /\ GridSum(heatmap) = 3

\* C23: the values calculateStats returns are bounded by one another and by
\* the input: errors <= winners <= shots, shots <= max(0, ballDetections - 1),
\* ballDetections is the number of analyses with a ball (so at most the
\* number of analyses), and playerMovements is the sum of the lengths of the
\* players lists (so at most twice the number of analyses when no list is
\* longer than 2).
C23_StatsBounds ==
    stPc = "returned" =>
        LET n == Len(stAnalyses)
        IN  /\ stats.errors <= stats.winners
            /\ stats.winners <= stats.shots
            /\ stats.shots <= (IF stats.ballDetections >= 1
                               THEN stats.ballDetections - 1 ELSE 0)
            /\ stats.ballDetections <= n
            /\ stats.ballDetections = Cardinality({i \in 1..n : stAnalyses[i].ball # Null})
            /\ stats.playerMovements = SumSeq([i \in 1..n |-> Len(stAnalyses[i].players)])
            /\ (\A i \in 1..n : Len(stAnalyses[i].players) <= 2) =>
                  stats.playerMovements <= 2 * n

\* C23 witness: eleven analyses, one of them without a ball, gave 9 shots,
\* 1 winner and 1 error from 10 ball detections, and 7 player boxes.
C23_Witness ==
    /\ stPc = "returned"
    /\ Len(stAnalyses) = 11
    /\ stats.ballDetections = 10
    /\ stats.shots = 9 /\ stats.winners = 1 /\ stats.errors = 1
    /\ stats.playerMovements = 7

\* How many submissions passed the test for a YouTube link.
YoutubeSubmits == Cardinality({i \in 1..Len(toasts) : toasts[i] = "Processando vídeo"})

\* C24: starting with no video loaded, once the handling of a submitted
\* YouTube link has run its course (no download is waiting and no analysis
\* is in progress), the video element has a source, videoLoaded is true and
\* analyzeVideo has called the processor.
C24_SubmitStartsAnalysis ==
    (YoutubeSubmits >= 1 /\ downloading = 0 /\ ~isAnalyzing) =>
        /\ videoSrc # ""
        /\ videoLoaded
        /\ analysisRuns >= 1

====
